---- MODULE Spec2Model ----
(***************************************************************************)
(* jsonl-tools: the Record Source (JsonlReader backends), the Schema       *)
(* Analyzer (key-path flattening, frequency table, missing-key detection)  *)
(* and the Dataset Handle (JsonlData) of src/src/jsonl.rs.                 *)
(*                                                                         *)
(* Strings are sequences of one-character strings, so that the key-path    *)
(* strings built by format!("{}.{}") and format!("{}[{}]") are real        *)
(* concatenations.  A serde_json::Value is a record [t, n, map, arr]:      *)
(* t is the variant, n the content of a Number, map the entries of an      *)
(* Object in key order (serde_json's Map iterates in key order), arr the   *)
(* elements of an Array.                                                   *)
(***************************************************************************)
EXTENDS Integers, Sequences, FiniteSets, TLC

\* Largest number of records a source holds in the model.
MaxLen == 2
\* Largest number of lines of the file a file-backed source reads.
MaxLines == 2
\* Largest number of records of a dataset the reporting operations are run on.
MaxReportLen == 3
\* Largest n given to show_top_key_combinations_report.
MaxTop == 2

(***************************************************************************)
(* Strings                                                                 *)
(***************************************************************************)

\* The byte of a character (Rust compares Strings byte by byte).
CharCode(c) ==
    CASE c = " " -> 32
      [] c = "." -> 46
      [] c = "0" -> 48
      [] c = "1" -> 49
      [] c = "2" -> 50
      [] c = "3" -> 51
      [] c = "4" -> 52
      [] c = "5" -> 53
      [] c = "6" -> 54
      [] c = "7" -> 55
      [] c = "8" -> 56
      [] c = "9" -> 57
      [] c = "[" -> 91
      [] c = "]" -> 93
      [] c = "a" -> 97
      [] c = "b" -> 98
      [] c = "c" -> 99

\* <String as Ord>::cmp(s, t) = Less: lexicographic order on the bytes.
RECURSIVE StrLess(_, _)
StrLess(s, t) ==
    IF t = <<>> THEN FALSE
    ELSE IF s = <<>> THEN TRUE
    ELSE IF CharCode(Head(s)) # CharCode(Head(t))
         THEN CharCode(Head(s)) < CharCode(Head(t))
         ELSE StrLess(Tail(s), Tail(t))

DigitChars == <<"0", "1", "2", "3", "4", "5", "6", "7", "8", "9">>

\* format!("{}", index) of a usize: its decimal digits.
RECURSIVE Decimal(_)
Decimal(index) ==
    IF index < 10 THEN <<DigitChars[index + 1]>>
    ELSE Decimal(index \div 10) \o <<DigitChars[(index % 10) + 1]>>

(***************************************************************************)
(* serde_json::Value                                                       *)
(***************************************************************************)

Null == [t |-> "Null", n |-> 0, map |-> <<>>, arr |-> <<>>]
Number(k) == [t |-> "Number", n |-> k, map |-> <<>>, arr |-> <<>>]
Object(entries) == [t |-> "Object", n |-> 0, map |-> entries, arr |-> <<>>]
Array(elems) == [t |-> "Array", n |-> 0, map |-> <<>>, arr |-> elems]
Entry(k, v) == [key |-> k, val |-> v]

\* The records the model draws its inputs from.
ObjA == Object(<<Entry(<<"a">>, Number(1))>>)                    \* {"a":1}
ObjAB == Object(<<Entry(<<"a">>, Number(1)),
                  Entry(<<"b">>, Number(2))>>)                   \* {"a":1,"b":2}
ObjANestB == Object(<<Entry(<<"a">>,
                 Object(<<Entry(<<"b">>, Number(1))>>))>>)       \* {"a":{"b":1}}
ObjAArr == Object(<<Entry(<<"a">>,
                 Array(<<Number(1), Number(2)>>))>>)             \* {"a":[1,2]}
ObjAArrObj == Object(<<Entry(<<"a">>,
                 Array(<<Object(<<Entry(<<"b">>, Null)>>)>>))>>) \* {"a":[{"b":null}]}
ObjEmpty == Object(<<>>)                                         \* {}
ObjDotted == Object(<<Entry(<<"a", ".", "b">>, Number(2))>>)     \* {"a.b":2}
ObjBoth == Object(<<Entry(<<"a">>,
                 Object(<<Entry(<<"b">>, Number(1))>>)),
               Entry(<<"a", ".", "b">>, Number(2))>>)            \* {"a":{"b":1},"a.b":2}
ObjC == Object(<<Entry(<<"c">>, Number(3))>>)                    \* {"c":3}
RootArr == Array(<<Object(<<Entry(<<"a">>, Number(1))>>)>>)      \* [{"a":1}]

Values ==
    {ObjA, ObjAB, ObjANestB, ObjAArr, ObjAArrObj, ObjEmpty, ObjDotted,
     ObjBoth, RootArr, Number(1)}

\* The records of the datasets the reporting operations are run on.
ReportValues == {ObjA, ObjANestB, ObjAB, ObjC, ObjEmpty, Number(1)}

\* The records written in the lines of the file of a file-backed source.
FileValues == {ObjA, ObjAB}

\* All sequences of at most n elements of S.
SeqsUpTo(S, n) == UNION {[1..k -> S] : k \in 0..n}

(***************************************************************************)
(* Schema Analyzer                                                         *)
(***************************************************************************)

\* *key_counts.entry(full_key).or_insert(0) += 1
Increment(key_counts, full_key) ==
    IF full_key \in DOMAIN key_counts
    THEN [key_counts EXCEPT ![full_key] = @ + 1]
    ELSE key_counts @@ (full_key :> 1)

\* format!("{}.{}", prefix, key), or the key itself under an empty prefix.
FullKey(prefix, key) ==
    IF prefix = <<>> THEN key ELSE prefix \o <<".">> \o key

\* format!("{}[{}]", prefix, index), or "[index]" under an empty prefix.
ArrayKey(prefix, index) ==
    IF prefix = <<>> THEN <<"[">> \o Decimal(index) \o <<"]">>
    ELSE prefix \o <<"[">> \o Decimal(index) \o <<"]">>

\* A variant of collect_row_keys that counts the bracketed path of every array
\* element.
RECURSIVE collect_row_keys_counts_elements(_, _, _)
collect_row_keys_counts_elements(value, key_counts, prefix) ==
    IF value.t = "Object" /\ value.map # <<>> THEN
        LET n == Len(value.map)
            before == collect_row_keys_counts_elements(
                          Object(SubSeq(value.map, 1, n - 1)), key_counts, prefix)
            full_key == FullKey(prefix, value.map[n].key)
        IN  collect_row_keys_counts_elements(value.map[n].val,
                                             Increment(before, full_key), full_key)
    ELSE IF value.t = "Array" /\ value.arr # <<>> THEN
        LET n == Len(value.arr)
            before == collect_row_keys_counts_elements(
                          Array(SubSeq(value.arr, 1, n - 1)), key_counts, prefix)
            array_key == ArrayKey(prefix, n - 1)
        IN  collect_row_keys_counts_elements(value.arr[n],
                                             Increment(before, array_key), array_key)
    ELSE key_counts

\* JsonlData::collect_row_keys: the counters after walking value under prefix.
\* The loop over the n entries (elements) is unrolled as: the first n-1, then
\* the last one.
RECURSIVE collect_row_keys(_, _, _)
collect_row_keys(value, key_counts, prefix) ==
    IF value.t = "Object" /\ value.map # <<>> THEN
        LET n == Len(value.map)
            before == collect_row_keys(Object(SubSeq(value.map, 1, n - 1)),
                                       key_counts, prefix)
            full_key == FullKey(prefix, value.map[n].key)
        IN  collect_row_keys(value.map[n].val, Increment(before, full_key), full_key)
    ELSE IF value.t = "Array" /\ value.arr # <<>> THEN
        LET n == Len(value.arr)
            before == collect_row_keys(Array(SubSeq(value.arr, 1, n - 1)),
                                       key_counts, prefix)
        IN  collect_row_keys(value.arr[n], before, ArrayKey(prefix, n - 1))
    ELSE key_counts

\* The for loop of analyze_json_keys over self.reader.iter().
RECURSIVE CountKeys(_)
CountKeys(data) ==
    IF data = <<>> THEN [k \in {} |-> 0]
    ELSE collect_row_keys(data[Len(data)],
                          CountKeys(SubSeq(data, 1, Len(data) - 1)), <<>>)

\* BTreeMap::into_iter: the (key, count) pairs in ascending key order.
RECURSIVE IntoIter(_)
IntoIter(key_counts) ==
    IF DOMAIN key_counts = {} THEN <<>>
    ELSE LET first == CHOOSE k \in DOMAIN key_counts :
                          \A o \in DOMAIN key_counts : o = k \/ StrLess(k, o)
         IN  <<<<first, key_counts[first]>>>>
             \o IntoIter([k \in DOMAIN key_counts \ {first} |-> key_counts[k]])

\* A variant of the comparator that breaks ties by descending key path.
BeforeTiesDescending(a, b) ==
    \/ b[2] < a[2]
    \/ b[2] = a[2] /\ StrLess(b[1], a[1])

\* The comparator of sort_by: b.1.cmp(&a.1).then_with(|| a.0.cmp(&b.0)) = Less.
Before(a, b) ==
    \/ b[2] < a[2]
    \/ b[2] = a[2] /\ StrLess(a[1], b[1])

\* Insertion of x into a sorted sequence, after the elements it is not before.
RECURSIVE Insert(_, _)
Insert(sorted, x) ==
    IF sorted = <<>> THEN <<x>>
    ELSE IF Before(x, sorted[Len(sorted)])
         THEN Insert(SubSeq(sorted, 1, Len(sorted) - 1), x) \o <<sorted[Len(sorted)]>>
         ELSE sorted \o <<x>>

\* slice::sort_by (a stable sort) with the comparator Before.
RECURSIVE SortBy(_)
SortBy(pairs) ==
    IF pairs = <<>> THEN <<>>
    ELSE Insert(SortBy(SubSeq(pairs, 1, Len(pairs) - 1)), pairs[Len(pairs)])

\* JsonlData::analyze_json_keys over the records of the reader.
analyze_json_keys(data) == SortBy(IntoIter(CountKeys(data)))

\* JsonlData::get_all_keys_seen_across_dataset.
get_all_keys_seen_across_dataset(data) ==
    LET key_counts == analyze_json_keys(data)
    IN  {key_counts[i][1] : i \in 1..Len(key_counts)}

\* A variant of collect_keys_from_value that recurses under the parent's prefix
\* instead of the field's own path.
RECURSIVE collect_keys_from_value_parent_prefix(_, _, _)
collect_keys_from_value_parent_prefix(value, keys, prefix) ==
    IF value.t = "Object" /\ value.map # <<>> THEN
        LET n == Len(value.map)
            before == collect_keys_from_value_parent_prefix(
                          Object(SubSeq(value.map, 1, n - 1)), keys, prefix)
            full_key == FullKey(prefix, value.map[n].key)
        IN  collect_keys_from_value_parent_prefix(value.map[n].val,
                                                  before \cup {full_key}, prefix)
    ELSE IF value.t = "Array" /\ value.arr # <<>> THEN
        LET n == Len(value.arr)
            before == collect_keys_from_value_parent_prefix(
                          Array(SubSeq(value.arr, 1, n - 1)), keys, prefix)
        IN  collect_keys_from_value_parent_prefix(value.arr[n], before,
                                                  ArrayKey(prefix, n - 1))
    ELSE keys

\* JsonlData::collect_keys_from_value: the set after walking value under prefix.
RECURSIVE collect_keys_from_value(_, _, _)
collect_keys_from_value(value, keys, prefix) ==
    IF value.t = "Object" /\ value.map # <<>> THEN
        LET n == Len(value.map)
            before == collect_keys_from_value(Object(SubSeq(value.map, 1, n - 1)),
                                              keys, prefix)
            full_key == FullKey(prefix, value.map[n].key)
        IN  collect_keys_from_value(value.map[n].val, before \cup {full_key}, full_key)
    ELSE IF value.t = "Array" /\ value.arr # <<>> THEN
        LET n == Len(value.arr)
            before == collect_keys_from_value(Array(SubSeq(value.arr, 1, n - 1)),
                                              keys, prefix)
        IN  collect_keys_from_value(value.arr[n], before, ArrayKey(prefix, n - 1))
    ELSE keys

\* JsonlData::get_keys_in_row.
get_keys_in_row(value) == collect_keys_from_value(value, {}, <<>>)

\* A variant of the loop that numbers the records from 1.
RECURSIVE MissingLoopFromOne(_, _, _)
MissingLoopFromOne(data, all_keys, n) ==
    IF n = 0 THEN <<>>
    ELSE LET rest == MissingLoopFromOne(data, all_keys, n - 1)
             row_keys == get_keys_in_row(data[n])
             missing_keys == all_keys \ row_keys
         IN  IF missing_keys # {} THEN Append(rest, n) ELSE rest

\* The for loop of identify_rows_with_missing_keys over the first n records
\* (enumerate() numbers them from 0).
RECURSIVE MissingLoop(_, _, _)
MissingLoop(data, all_keys, n) ==
    IF n = 0 THEN <<>>
    ELSE LET rest == MissingLoop(data, all_keys, n - 1)
             row_keys == get_keys_in_row(data[n])
             missing_keys == all_keys \ row_keys
         IN  IF missing_keys # {} THEN Append(rest, n - 1) ELSE rest

\* JsonlData::identify_rows_with_missing_keys.
identify_rows_with_missing_keys(data) ==
    MissingLoop(data, get_all_keys_seen_across_dataset(data), Len(data))

\* <Vec<String> as Ord>::cmp(u, v) = Less: lexicographic order on the elements.
RECURSIVE VecLess(_, _)
VecLess(u, v) ==
    IF v = <<>> THEN FALSE
    ELSE IF u = <<>> THEN TRUE
    ELSE IF Head(u) # Head(v) THEN StrLess(Head(u), Head(v))
    ELSE VecLess(Tail(u), Tail(v))

\* Insertion of key into a sorted sequence of strings.
RECURSIVE InsertKey(_, _)
InsertKey(sorted, key) ==
    IF sorted = <<>> THEN <<key>>
    ELSE IF StrLess(key, sorted[Len(sorted)])
         THEN Append(InsertKey(SubSeq(sorted, 1, Len(sorted) - 1), key),
                     sorted[Len(sorted)])
         ELSE Append(sorted, key)

\* map.keys().cloned().collect() followed by keys.sort(), over the first n
\* entries of map.
RECURSIVE SortedKeys(_, _)
SortedKeys(map, n) ==
    IF n = 0 THEN <<>> ELSE InsertKey(SortedKeys(map, n - 1), map[n].key)

\* The for loop of get_top_key_combinations: combination_freqs after the
\* records of data (only a Value::Object is counted).
RECURSIVE CountCombinations(_)
CountCombinations(data) ==
    IF data = <<>> THEN [k \in {} |-> 0]
    ELSE LET before == CountCombinations(SubSeq(data, 1, Len(data) - 1))
             val == data[Len(data)]
         IN  IF val.t = "Object"
             THEN Increment(before, SortedKeys(val.map, Len(val.map)))
             ELSE before

\* HashMap::into_iter: the order of the (keys, count) pairs depends on the
\* random seed of the map, so every order of the entries is an outcome.  The
\* set of the sequences that hold each entry exactly once.
HashIntoIter(combination_freqs) ==
    LET entries == {<<k, combination_freqs[k]>> : k \in DOMAIN combination_freqs}
        count == Cardinality(entries)
    IN  {[i \in 1..count |-> order[i]] :
             order \in {o \in [1..count -> entries] :
                            \A i, j \in 1..count : o[i] = o[j] => i = j}}

\* A variant of the comparator that puts the smaller count first.
CombinationBeforeAscending(a, b) ==
    \/ a[2] < b[2]
    \/ b[2] = a[2] /\ VecLess(a[1], b[1])

\* The comparator of sort_by in get_top_key_combinations:
\* b.1.cmp(&a.1).then_with(|| a.0.cmp(&b.0)) = Less.
CombinationBefore(a, b) ==
    \/ b[2] < a[2]
    \/ b[2] = a[2] /\ VecLess(a[1], b[1])

\* Insertion of x into a sorted sequence of combinations.
RECURSIVE InsertCombination(_, _)
InsertCombination(sorted, x) ==
    IF sorted = <<>> THEN <<x>>
    ELSE IF CombinationBefore(x, sorted[Len(sorted)])
         THEN Append(InsertCombination(SubSeq(sorted, 1, Len(sorted) - 1), x),
                     sorted[Len(sorted)])
         ELSE Append(sorted, x)

\* slice::sort_by with the comparator CombinationBefore.
RECURSIVE SortCombinations(_)
SortCombinations(pairs) ==
    IF pairs = <<>> THEN <<>>
    ELSE InsertCombination(SortCombinations(SubSeq(pairs, 1, Len(pairs) - 1)),
                           pairs[Len(pairs)])

\* Iterator::take(n).collect().
Take(items, n) == SubSeq(items, 1, IF n < Len(items) THEN n ELSE Len(items))

\* JsonlData::get_top_key_combinations(n) over the records of the reader: the
\* results it can return, one for each order in which the map is iterated.
get_top_key_combinations(data, n) ==
    {Take(SortCombinations(items), n) : items \in HashIntoIter(CountCombinations(data))}

(***************************************************************************)
(* Record Source                                                           *)
(***************************************************************************)

\* A line of a file: blank (""), whitespace only, a JSON document, or text
\* that is not JSON.
BlankLine == [kind |-> "blank", val |-> Null]
SpacesLine == [kind |-> "spaces", val |-> Null]
BadLine == [kind |-> "bad", val |-> Null]
JsonLine(v) == [kind |-> "json", val |-> v]
Lines == {BlankLine, SpacesLine, BadLine} \cup {JsonLine(v) : v \in FileValues}

\* line.trim().is_empty()
TrimIsEmpty(line) == line.kind \in {"blank", "spaces"}

\* serde_json::from_str(&line): Ok(value) for a JSON document, Err otherwise.
from_str(line) ==
    IF line.kind = "json" THEN [ok |-> TRUE, val |-> line.val]
    ELSE [ok |-> FALSE, val |-> Null]

\* The for loop of FileJsonlReader::load over the first n lines: the data
\* pushed so far and whether a line failed to parse (the ? returns early, so
\* nothing is pushed after a failure).
RECURSIVE LoadLoop(_, _)
LoadLoop(lines_, n) ==
    IF n = 0 THEN [res |-> "Ok", data |-> <<>>]
    ELSE LET sofar == LoadLoop(lines_, n - 1)
             line == lines_[n]
         IN  IF sofar.res # "Ok" THEN sofar
             ELSE IF TrimIsEmpty(line) THEN sofar
             ELSE IF from_str(line).ok
                  THEN [res |-> "Ok", data |-> Append(sofar.data, from_str(line).val)]
                  ELSE [res |-> "InvalidData", data |-> sofar.data]

\* FileJsonlReader::load: the result and the reader's data when it returns.
FileLoad(exists_, lines_, data) ==
    IF ~exists_ THEN [res |-> "NotFound", data |-> data]
    ELSE LoadLoop(lines_, Len(lines_))

\* MemoryJsonlReader::load.
MemoryLoad(data) == [res |-> "Ok", data |-> data]

\* HttpJsonlReader::load.
HttpLoad(data) == [res |-> "Other", data |-> data]

\* R::load of the backend.
load(backend_, exists_, lines_, data) ==
    CASE backend_ = "File" -> FileLoad(exists_, lines_, data)
      [] backend_ = "Memory" -> MemoryLoad(data)
      [] backend_ = "Http" -> HttpLoad(data)

\* MemoryJsonlReader::from_strings over the first n lines: every line is given
\* to serde_json::from_str and collect() stops at the first Err.
RECURSIVE from_strings(_, _)
from_strings(json_lines, n) ==
    IF n = 0 THEN [res |-> "Ok", data |-> <<>>]
    ELSE LET sofar == from_strings(json_lines, n - 1)
             parsed == from_str(json_lines[n])
         IN  IF sofar.res # "Ok" THEN sofar
             ELSE IF parsed.ok
                  THEN [res |-> "Ok", data |-> Append(sofar.data, parsed.val)]
                  ELSE [res |-> "JsonError", data |-> <<>>]

\* The error of R::replace at an index out of bounds.
IndexError(backend_) == IF backend_ = "Http" THEN "Other" ELSE "InvalidInput"

(***************************************************************************)
(* Dataset Handle                                                          *)
(***************************************************************************)

VARIABLES
    phase,        \* "Text" (raw lines, no reader yet), "Uninitialized" (a
                  \* reader, no JsonlData yet), "Ready" (a JsonlData exists),
                  \* "Failed"
    backend,      \* the reader type R: "File", "Memory" or "Http"
    file_exists,  \* whether the file at the path of a FileJsonlReader opens
    lines,        \* the lines of that file, or those given to from_strings
    reader_data,  \* reader.data
    keys_seen,    \* Option: <<>> is None, <<x>> is Some(x)
    key_freqs,
    rows_with_missing_keys,
    result,       \* the last call and what it returned
    report        \* what the last call printed, if it was a reporting operation

vars == <<phase, backend, file_exists, lines, reader_data, keys_seen, key_freqs,
          rows_with_missing_keys, result, report>>

Some(x) == <<x>>
None == <<>>

\* The output of a call that reports nothing.  The fields: the reporting
\* operation and its argument, whether it ran analyze_json_keys over the
\* reader, and what it printed: the number of unique keys, the frequency table,
\* the rows with missing keys, the key combinations, the record and its
\* missing keys.
NoReport ==
    [op |-> "none", arg |-> 0, recomputed |-> FALSE, count |-> 0, freqs |-> None,
     rows |-> None, combos |-> <<>>, record |-> None, missing |-> {}]

\* JsonlReader::len and JsonlData::len.
len == Len(reader_data)

\* JsonlReader::get and JsonlData::get (indices count from 0).
get(index) == IF index < Len(reader_data) THEN Some(reader_data[index + 1]) ELSE None

\* The arguments the model passes as an index.
Indices == 0..MaxLen

\* A reader before JsonlData::new: FileJsonlReader::new(path),
\* MemoryJsonlReader::new(name, data) or HttpJsonlReader::new(url).
Init ==
    /\ phase = "Uninitialized"
    /\ backend \in {"File", "Memory", "Http"}
    /\ file_exists \in BOOLEAN
    /\ lines \in SeqsUpTo(Lines, MaxLines)
    /\ backend # "File" => file_exists = FALSE /\ lines = <<>>
    /\ ~file_exists => lines = <<>>
    /\ reader_data \in SeqsUpTo(Values, MaxLen)
    /\ backend # "Memory" => reader_data = <<>>
    /\ keys_seen = None
    /\ key_freqs = None
    /\ rows_with_missing_keys = None
    /\ result = [op |-> "none", res |-> "none"]
    /\ report = NoReport

\* A variant of new that ignores the result of load.
NewIgnoresLoadError ==
    /\ phase = "Uninitialized"
    /\ LET loaded == load(backend, file_exists, lines, reader_data)
       IN  /\ phase' = "Ready"
           /\ reader_data' = loaded.data
           /\ keys_seen' = Some(get_all_keys_seen_across_dataset(loaded.data))
           /\ key_freqs' = Some(analyze_json_keys(loaded.data))
           /\ rows_with_missing_keys' =
                  Some(identify_rows_with_missing_keys(loaded.data))
           /\ result' = [op |-> "new", res |-> "Ok"]
    /\ report' = NoReport
    /\ UNCHANGED <<backend, file_exists, lines>>

\* JsonlData::new(reader).  When load fails the ? returns the error and the
\* reader, which new owns, is dropped with whatever it holds.
New ==
    /\ phase = "Uninitialized"
    /\ LET loaded == load(backend, file_exists, lines, reader_data)
       IN  IF loaded.res = "Ok"
           THEN /\ phase' = "Ready"
                /\ reader_data' = loaded.data
                /\ keys_seen' = Some(get_all_keys_seen_across_dataset(loaded.data))
                /\ key_freqs' = Some(analyze_json_keys(loaded.data))
                /\ rows_with_missing_keys' =
                       Some(identify_rows_with_missing_keys(loaded.data))
                /\ result' = [op |-> "new", res |-> "Ok"]
           ELSE /\ phase' = "Failed"
                /\ reader_data' = <<>>
                /\ keys_seen' = None
                /\ key_freqs' = None
                /\ rows_with_missing_keys' = None
                /\ result' = [op |-> "new", res |-> loaded.res]
    /\ report' = NoReport
    /\ UNCHANGED <<backend, file_exists, lines>>

\* R::replace(index, value) on a reader holding data: the result and the data
\* afterwards.
replace_off_by_one(backend_, data, index, value) ==
    IF index < Len(data)
    THEN [res |-> "Ok", data |-> [data EXCEPT ![Len(data) - index] = value]]
    ELSE [res |-> IndexError(backend_), data |-> data]

replace_grows(backend_, data, index, value) ==
    IF index < Len(data)
    THEN [res |-> "Ok", data |-> [data EXCEPT ![index + 1] = value]]
    ELSE [res |-> IndexError(backend_), data |-> Append(data, value)]

replace(backend_, data, index, value) ==
    IF index < Len(data)
    THEN [res |-> "Ok", data |-> [data EXCEPT ![index + 1] = value]]
    ELSE [res |-> IndexError(backend_), data |-> data]

\* JsonlData::replace_record(record_id, new_json).  reader.replace acts on the
\* reader in place; the ? returns its error before the recomputation.
ReplaceRecordStaleKeys(record_id, new_json) ==
    /\ phase = "Ready"
    /\ LET replaced == replace(backend, reader_data, record_id, new_json)
       IN  /\ reader_data' = replaced.data
           /\ result' = [op |-> "replace_record", res |-> replaced.res]
           /\ IF replaced.res = "Ok"
              THEN /\ key_freqs' = Some(analyze_json_keys(replaced.data))
                   /\ rows_with_missing_keys' =
                          Some(identify_rows_with_missing_keys(replaced.data))
                   /\ UNCHANGED keys_seen
              ELSE UNCHANGED <<keys_seen, key_freqs, rows_with_missing_keys>>
    /\ report' = NoReport
    /\ UNCHANGED <<phase, backend, file_exists, lines>>

ReplaceRecord(record_id, new_json) ==
    /\ phase = "Ready"
    /\ LET replaced == replace(backend, reader_data, record_id, new_json)
       IN  /\ reader_data' = replaced.data
           /\ result' = [op |-> "replace_record", res |-> replaced.res]
           /\ IF replaced.res = "Ok"
              THEN /\ keys_seen' =
                          Some(get_all_keys_seen_across_dataset(replaced.data))
                   /\ key_freqs' = Some(analyze_json_keys(replaced.data))
                   /\ rows_with_missing_keys' =
                          Some(identify_rows_with_missing_keys(replaced.data))
              ELSE UNCHANGED <<keys_seen, key_freqs, rows_with_missing_keys>>
    /\ report' = NoReport
    /\ UNCHANGED <<phase, backend, file_exists, lines>>

\* reader.push(value) on the handle's public reader field.
ReaderPush(value) ==
    /\ phase = "Ready"
    /\ Len(reader_data) < MaxLen
    /\ reader_data' = Append(reader_data, value)
    /\ result' = [op |-> "push", res |-> "Ok"]
    /\ report' = NoReport
    /\ UNCHANGED <<phase, backend, file_exists, lines, keys_seen, key_freqs,
                   rows_with_missing_keys>>

\* reader.replace(index, value) on the handle's public reader field.
ReaderReplace(index, value) ==
    /\ phase = "Ready"
    /\ LET replaced == replace(backend, reader_data, index, value)
       IN  /\ reader_data' = replaced.data
           /\ result' = [op |-> "replace", res |-> replaced.res]
    /\ report' = NoReport
    /\ UNCHANGED <<phase, backend, file_exists, lines, keys_seen, key_freqs,
                   rows_with_missing_keys>>

\* reader.get_mut(index) on the handle's public reader field, and the write of
\* value through the reference it returns (None out of range).
ReaderGetMut(index, value) ==
    /\ phase = "Ready"
    /\ IF index < Len(reader_data)
       THEN /\ reader_data' = [reader_data EXCEPT ![index + 1] = value]
            /\ result' = [op |-> "get_mut", res |-> "Some"]
       ELSE /\ UNCHANGED reader_data
            /\ result' = [op |-> "get_mut", res |-> "None"]
    /\ report' = NoReport
    /\ UNCHANGED <<phase, backend, file_exists, lines, keys_seen, key_freqs,
                   rows_with_missing_keys>>

\* reader.load() on the handle's public reader field: a file reader clears
\* its records and reads the file again, a memory reader keeps its records;
\* the cached fields are not touched.
ReaderLoad ==
    /\ phase = "Ready"
    /\ LET loaded == load(backend, file_exists, lines, reader_data)
       IN  /\ reader_data' = loaded.data
           /\ result' = [op |-> "load", res |-> loaded.res]
    /\ report' = NoReport
    /\ UNCHANGED <<phase, backend, file_exists, lines, keys_seen, key_freqs,
                   rows_with_missing_keys>>

\* The operations of JsonlData itself that change state: new and
\* replace_record.  Those of its public reader field are in NextReader.
Next ==
    \/ New
    \/ \E record_id \in Indices, new_json \in Values :
           ReplaceRecord(record_id, new_json)

Spec == Init /\ [][Next]_vars

\* MemoryJsonlReader::from_strings(name, json_lines) as process_memory_data
\* calls it: Ok(reader) goes on to JsonlData::new, Err ends the processing.
FromStrings ==
    /\ phase = "Text"
    /\ LET built == from_strings(lines, Len(lines))
       IN  /\ phase' = IF built.res = "Ok" THEN "Uninitialized" ELSE "Failed"
           /\ reader_data' = built.data
           /\ result' = [op |-> "from_strings", res |-> built.res]
    /\ report' = NoReport
    /\ UNCHANGED <<backend, file_exists, lines, keys_seen, key_freqs,
                   rows_with_missing_keys>>

\* A textual source before it is built: the path of a file, or the raw lines
\* given to from_strings.
InitText ==
    \/ Init /\ backend = "File"
    \/ /\ phase = "Text"
       /\ backend = "Memory"
       /\ file_exists = FALSE
       /\ lines \in SeqsUpTo(Lines, MaxLines)
       /\ reader_data = <<>>
       /\ keys_seen = None
       /\ key_freqs = None
       /\ rows_with_missing_keys = None
       /\ result = [op |-> "none", res |-> "none"]
       /\ report = NoReport

\* The construction of a handle over a textual source.
NextText ==
    \/ FromStrings
    \/ New

SpecText == InitText /\ [][NextText]_vars

\* JsonlData::show_keys_found_report: prints the number of cached keys.
ShowKeysFoundReport ==
    /\ phase = "Ready"
    /\ result' = [op |-> "show_keys_found_report", res |-> "Unit"]
    /\ report' = [NoReport EXCEPT
                      !.op = "show_keys_found_report",
                      !.count = IF keys_seen = None THEN 0
                                ELSE Cardinality(keys_seen[1])]
    /\ UNCHANGED <<phase, backend, file_exists, lines, reader_data, keys_seen,
                   key_freqs, rows_with_missing_keys>>

\* JsonlData::show_keys_frequencies_report: prints the cached table and the
\* cached rows with missing keys.
ShowKeysFrequenciesReport ==
    /\ phase = "Ready"
    /\ result' = [op |-> "show_keys_frequencies_report", res |-> "Unit"]
    /\ report' = [NoReport EXCEPT
                      !.op = "show_keys_frequencies_report",
                      !.freqs = key_freqs,
                      !.rows = rows_with_missing_keys]
    /\ UNCHANGED <<phase, backend, file_exists, lines, reader_data, keys_seen,
                   key_freqs, rows_with_missing_keys>>

\* JsonlData::show_top_key_combinations_report(n): prints the combinations
\* get_top_key_combinations(n) finds in the records of the reader.
ShowTopKeyCombinationsReport(n) ==
    /\ phase = "Ready"
    /\ result' = [op |-> "show_top_key_combinations_report", res |-> "Unit"]
    /\ \E top_combinations \in get_top_key_combinations(reader_data, n) :
           report' = [NoReport EXCEPT
                         !.op = "show_top_key_combinations_report",
                         !.arg = n,
                         !.combos = top_combinations]
    /\ UNCHANGED <<phase, backend, file_exists, lines, reader_data, keys_seen,
                   key_freqs, rows_with_missing_keys>>

\* JsonlData::show_record(record_id): prints the record and the keys of
\* get_all_keys_seen_across_dataset() it lacks; "not found" out of range.
ShowRecord(record_id) ==
    /\ phase = "Ready"
    /\ result' = [op |-> "show_record", res |-> "Unit"]
    /\ IF get(record_id) # None
       THEN LET row == get(record_id)[1]
                all_keys == get_all_keys_seen_across_dataset(reader_data)
                row_keys == get_keys_in_row(row)
            IN  report' = [NoReport EXCEPT
                              !.op = "show_record",
                              !.arg = record_id,
                              !.recomputed = TRUE,
                              !.record = Some(row),
                              !.missing = all_keys \ row_keys]
       ELSE report' = [NoReport EXCEPT !.op = "show_record", !.arg = record_id]
    /\ UNCHANGED <<phase, backend, file_exists, lines, reader_data, keys_seen,
                   key_freqs, rows_with_missing_keys>>

\* An in-memory reader of the datasets the reporting operations are run on.
InitReport ==
    /\ phase = "Uninitialized"
    /\ backend = "Memory"
    /\ file_exists = FALSE
    /\ lines = <<>>
    /\ reader_data \in SeqsUpTo(ReportValues, MaxReportLen)
    /\ keys_seen = None
    /\ key_freqs = None
    /\ rows_with_missing_keys = None
    /\ result = [op |-> "none", res |-> "none"]
    /\ report = NoReport

\* The handle's operations, the reporting operations among them.
NextReport ==
    \/ New
    \/ \E record_id \in 0..MaxReportLen, new_json \in ReportValues :
           ReplaceRecord(record_id, new_json)
    \/ ShowKeysFoundReport
    \/ ShowKeysFrequenciesReport
    \/ \E n \in 0..MaxTop : ShowTopKeyCombinationsReport(n)
    \/ \E record_id \in 0..MaxReportLen : ShowRecord(record_id)

SpecReport == InitReport /\ [][NextReport]_vars

\* The records the holder of the handle writes through the public reader
\* field.
ReaderValues == {ObjA, ObjAB, ObjEmpty}

\* The lines of the file of a file reader whose records are written through
\* the public reader field.
ReaderLines == {JsonLine(ObjA), JsonLine(ObjAB)}

\* An in-memory reader or a file reader before JsonlData::new.
InitReader ==
    /\ Init
    /\ backend \in {"Memory", "File"}
    /\ reader_data \in SeqsUpTo(ReaderValues, MaxLen)
    /\ lines \in SeqsUpTo(ReaderLines, MaxLines)

\* The handle's own operations and those of its public reader field.
NextReader ==
    \/ New
    \/ \E record_id \in Indices, new_json \in ReaderValues :
           ReplaceRecord(record_id, new_json)
    \/ \E value \in ReaderValues : ReaderPush(value)
    \/ \E index \in Indices, value \in ReaderValues : ReaderReplace(index, value)
    \/ \E index \in Indices, value \in ReaderValues : ReaderGetMut(index, value)
    \/ ReaderLoad

SpecReader == InitReader /\ [][NextReader]_vars

(***************************************************************************)
(* Properties                                                              *)
(***************************************************************************)

\* The key paths of a frequency table.
KeyDomain(freqs) == {freqs[i][1] : i \in 1..Len(freqs)}

\* The cached fields are those of a from-scratch analysis of data.
CacheOf(data) ==
    /\ key_freqs = Some(analyze_json_keys(data))
    /\ keys_seen = Some(KeyDomain(key_freqs[1]))
    /\ rows_with_missing_keys = Some(identify_rows_with_missing_keys(data))

\* C1: in every state reached from a successful JsonlData::new by
\* replace_record calls (valid or invalid index), key_freqs is the frequency
\* table of the current records, keys_seen is exactly the set of key paths of
\* key_freqs, and rows_with_missing_keys is the missing-key list of the current
\* records.
C1_CachesMatchRecords ==
    phase = "Ready" => CacheOf(reader_data)

\* A successful replace_record has acted on a dataset of two records, one of
\* which lacks a key of the other.
C1_Witness ==
    /\ phase = "Ready"
    /\ result = [op |-> "replace_record", res |-> "Ok"]
    /\ Len(reader_data) >= 2
    /\ key_freqs # Some(<<>>)
    /\ rows_with_missing_keys # Some(<<>>)

\* C2: replace_record(index, v) with index >= length() returns the
\* index-out-of-range error and leaves the length, every record, key_freqs,
\* keys_seen and rows_with_missing_keys as they were; after it a replace_record
\* at every valid index is still possible and succeeds.
C2_InvalidIndexLeavesState ==
    [][/\ \A record_id \in Indices, new_json \in Values :
            (record_id >= Len(reader_data) /\ ReplaceRecord(record_id, new_json)) =>
                /\ result' = [op |-> "replace_record", res |-> "InvalidInput"]
                /\ UNCHANGED <<phase, reader_data, keys_seen, key_freqs,
                               rows_with_missing_keys>>
       /\ result = [op |-> "replace_record", res |-> "InvalidInput"] =>
            /\ phase = "Ready"
            /\ \A record_id \in 0..(Len(reader_data) - 1), new_json \in Values :
                   /\ replace(backend, reader_data, record_id, new_json).res = "Ok"
                   /\ ReplaceRecord(record_id, new_json) =>
                          /\ result' = [op |-> "replace_record", res |-> "Ok"]
                          /\ reader_data'[record_id + 1] = new_json]_vars

\* replace_record at an invalid index has just failed on a non-empty dataset.
C2_Witness ==
    /\ phase = "Ready"
    /\ result = [op |-> "replace_record", res |-> "InvalidInput"]
    /\ Len(reader_data) >= 1
    /\ key_freqs # Some(<<>>)

\* C3: after a successful replace_record(i, v) with i < length(), get(i)
\* returns v, get(j) is unchanged for every j # i, and length() is unchanged.
C3_ReplaceFrame ==
    [][\A record_id \in Indices, new_json \in Values :
          (record_id < Len(reader_data) /\ ReplaceRecord(record_id, new_json)) =>
              /\ result' = [op |-> "replace_record", res |-> "Ok"]
              /\ get(record_id)' = Some(new_json)
              /\ \A j \in Indices \ {record_id} : get(j)' = get(j)
              /\ len' = len]_vars

\* A successful replace_record has left two different records in the dataset.
C3_Witness ==
    /\ phase = "Ready"
    /\ result = [op |-> "replace_record", res |-> "Ok"]
    /\ Len(reader_data) >= 2
    /\ reader_data[1] # reader_data[2]

\* C4: after every mutation of the records that a holder of the handle can
\* perform (replace_record, and push, get_mut and replace on the public reader
\* field), the state the caller observes next has key_freqs, keys_seen and
\* rows_with_missing_keys matching the mutated records.
C4_EveryMutationRecomputes ==
    (phase = "Ready"
       /\ result.op \in {"replace_record", "push", "replace", "get_mut"}) =>
        CacheOf(reader_data)

Str_a == <<"a">>
Str_b == <<"b">>
Str_a_0 == <<"a", "[", "0", "]">>
Str_a_1 == <<"a", "[", "1", "]">>
Str_a_0_dot_b == <<"a", "[", "0", "]", ".", "b">>

\* The fields of a top-level object record whose value is an array.
ArrayFields(record) ==
    IF record.t = "Object"
    THEN {record.map[k] : k \in {j \in 1..Len(record.map) : record.map[j].val.t = "Array"}}
    ELSE {}

\* C5: a field whose value is an array emits one bracketed-index key path per
\* array element, and the dataset [{"a":[1,2]}] yields the Global Key Set
\* exactly {a[0], a[1]}, with no entry a.
C5_ArrayEmitsIndexPaths ==
    phase = "Ready" =>
        /\ \A i \in 1..Len(reader_data) : \A e \in ArrayFields(reader_data[i]) :
               \A j \in 0..(Len(e.val.arr) - 1) : ArrayKey(e.key, j) \in keys_seen[1]
        /\ reader_data = <<ObjAArr>> => keys_seen = Some({Str_a_0, Str_a_1})

\* C5 as the code has it: a field whose value is an array emits the field's
\* own path, and its elements emit only what their own fields emit under the
\* bracketed prefix: [{"a":[1,2]}] yields exactly {a}, [{"a":[{"b":null}]}]
\* yields exactly {a, a[0].b}.
C5_ArrayEmitsFieldPath ==
    phase = "Ready" =>
        /\ \A i \in 1..Len(reader_data) : \A e \in ArrayFields(reader_data[i]) :
               /\ e.key \in keys_seen[1]
               /\ \A j \in 0..(Len(e.val.arr) - 1) :
                      \A p \in get_keys_in_row(e.val.arr[j + 1]) :
                          ArrayKey(e.key, j) \o <<".">> \o p \in keys_seen[1]
        /\ reader_data = <<ObjAArr>> => keys_seen = Some({Str_a})
        /\ reader_data = <<ObjAArrObj>> => keys_seen = Some({Str_a, Str_a_0_dot_b})

\* The handle holds the single record {"a":[1,2]}.
C5_Witness ==
    /\ phase = "Ready"
    /\ reader_data = <<ObjAArr>>
    /\ keys_seen # None

\* C6: the Global Key Set (built by collect_row_keys) equals the union over
\* all records of get_keys_in_row(record) (built by collect_keys_from_value);
\* every Row Key Set is a subset of it, and a root-level scalar record has the
\* empty Row Key Set.
C6_GlobalIsUnionOfRows ==
    phase = "Ready" =>
        /\ keys_seen =
               Some(UNION {get_keys_in_row(reader_data[i]) : i \in 1..Len(reader_data)})
        /\ \A i \in 1..Len(reader_data) :
               /\ get_keys_in_row(reader_data[i]) \subseteq keys_seen[1]
               /\ reader_data[i].t \notin {"Object", "Array"} =>
                      get_keys_in_row(reader_data[i]) = {}

\* A dataset with a root-level scalar and a record with nested key paths.
C6_Witness ==
    /\ phase = "Ready"
    /\ Len(reader_data) >= 2
    /\ \E i \in 1..Len(reader_data) : reader_data[i] = Number(1)
    /\ \E i \in 1..Len(reader_data) : reader_data[i].t = "Object"
    /\ Cardinality(keys_seen[1]) >= 2

\* C7: index i < length() is in rows_with_missing_keys iff the Row Key Set of
\* record i differs from the Global Key Set; the indices are in ascending
\* order, once each; an empty-object record is flagged exactly when the Global
\* Key Set is non-empty.
C7_MissingIffRowDiffers ==
    phase = "Ready" =>
        LET rows == rows_with_missing_keys[1]
        IN  /\ \A i \in 0..(Len(reader_data) - 1) :
                   (\E k \in 1..Len(rows) : rows[k] = i)
                       <=> get_keys_in_row(reader_data[i + 1]) # keys_seen[1]
            /\ \A k \in 1..Len(rows) : rows[k] \in 0..(Len(reader_data) - 1)
            /\ \A k \in 1..(Len(rows) - 1) : rows[k] < rows[k + 1]
            /\ \A i \in 0..(Len(reader_data) - 1) :
                   reader_data[i + 1] = ObjEmpty =>
                       ((\E k \in 1..Len(rows) : rows[k] = i) <=> keys_seen[1] # {})

\* The second record is an empty object and the only one flagged.
C7_Witness ==
    /\ phase = "Ready"
    /\ Len(reader_data) = 2
    /\ reader_data[2] = ObjEmpty
    /\ rows_with_missing_keys = Some(<<1>>)

\* C8: the count of every key path of the Frequency Table is the number of
\* records whose Row Key Set contains it, so no count exceeds length();
\* [{"a":1},{"a":1,"b":2}] gives a -> 2 and b -> 1.
C8_CountIsNumberOfRecords ==
    phase = "Ready" =>
        /\ \A k \in 1..Len(key_freqs[1]) :
               /\ key_freqs[1][k][2] =
                      Cardinality({i \in 1..Len(reader_data) :
                          key_freqs[1][k][1] \in get_keys_in_row(reader_data[i])})
               /\ key_freqs[1][k][2] <= Len(reader_data)
        /\ reader_data = <<ObjA, ObjAB>> =>
               key_freqs = Some(<<<<Str_a, 2>>, <<Str_b, 1>>>>)

\* A step of a traversal: into the field name of an object, or into the
\* element index of an array.
FieldStep(name) == [kind |-> "field", name |-> name, index |-> 0]
IndexStep(index) == [kind |-> "index", name |-> <<>>, index |-> index]

\* The traversal sequences of value at which collect_keys_from_value inserts a
\* key (those that end at a field), each preceded by trail.
RECURSIVE Traversals(_, _)
Traversals(value, trail) ==
    IF value.t = "Object" THEN
        UNION {{Append(trail, FieldStep(value.map[k].key))}
                   \cup Traversals(value.map[k].val,
                                   Append(trail, FieldStep(value.map[k].key)))
               : k \in 1..Len(value.map)}
    ELSE IF value.t = "Array" THEN
        UNION {Traversals(value.arr[k], Append(trail, IndexStep(k - 1)))
               : k \in 1..Len(value.arr)}
    ELSE {}

\* The key-path string collect_keys_from_value builds along a traversal.
RECURSIVE PathString(_)
PathString(trail) ==
    IF trail = <<>> THEN <<>>
    ELSE LET prefix == PathString(SubSeq(trail, 1, Len(trail) - 1))
             last == trail[Len(trail)]
         IN  IF last.kind = "field" THEN FullKey(prefix, last.name)
             ELSE ArrayKey(prefix, last.index)

\* C9: two records share a key-path string iff the same traversal sequence of
\* field names and array indices exists in both; equivalently the key-path
\* string determines the traversal sequence.
C9_PathIdentifiesTraversal ==
    phase = "Ready" =>
        /\ \A i, j \in 1..Len(reader_data) :
               get_keys_in_row(reader_data[i]) \cap get_keys_in_row(reader_data[j])
                   = {PathString(t) : t \in Traversals(reader_data[i], <<>>)
                                         \cap Traversals(reader_data[j], <<>>)}
        /\ \A t1, t2 \in UNION {Traversals(reader_data[i], <<>>)
                                   : i \in 1..Len(reader_data)} :
               PathString(t1) = PathString(t2) => t1 = t2

\* The load of the reader given to new fails.
LoadFails ==
    \/ backend = "Http"
    \/ backend = "File" /\ ~file_exists
    \/ backend = "File" /\ \E k \in 1..Len(lines) : lines[k].kind = "bad"

\* C10: when the load of the Record Source fails (file missing, a malformed
\* non-blank line, the network-backed source), JsonlData::new returns that
\* error, no handle is produced, and no record parsed before the failure is
\* retained.
C10_LoadFailureNoHandle ==
    [][(phase = "Uninitialized" /\ LoadFails) =>
           /\ phase' = "Failed"
           /\ result'.op = "new"
           /\ result'.res = (IF backend = "Http" THEN "Other"
                             ELSE IF ~file_exists THEN "NotFound"
                             ELSE "InvalidData")
           /\ reader_data' = <<>>
           /\ keys_seen' = None
           /\ key_freqs' = None
           /\ rows_with_missing_keys' = None]_vars

\* new has failed on a file whose second line is malformed after a valid first
\* line.
C10_Witness ==
    /\ phase = "Failed"
    /\ result = [op |-> "new", res |-> "InvalidData"]
    /\ Len(lines) = 2
    /\ lines[1].kind = "json"
    /\ lines[2].kind = "bad"
    /\ reader_data = <<>>

\* The values of the JSON lines among the first n lines, in line order.
RECURSIVE NonBlankValues(_, _)
NonBlankValues(lines_, n) ==
    IF n = 0 THEN <<>>
    ELSE IF lines_[n].kind = "json"
         THEN Append(NonBlankValues(lines_, n - 1), lines_[n].val)
         ELSE NonBlankValues(lines_, n - 1)

\* A textual source is about to be built: from_strings over raw lines, or new
\* over the reader of a file that opens.
BuildsTextSource ==
    \/ phase = "Text"
    \/ phase = "Uninitialized" /\ backend = "File" /\ file_exists

\* C11: for every textual source (file-backed load, from_strings), blank and
\* whitespace-only lines are skipped and not counted: when every non-blank
\* line is valid JSON the source is built successfully, length() is the number
\* of non-blank lines and the records are in line order.
C11_BlankLinesSkipped ==
    [][(BuildsTextSource /\ \A k \in 1..Len(lines) : lines[k].kind # "bad") =>
           /\ result'.res = "Ok"
           /\ phase' \in {"Uninitialized", "Ready"}
           /\ Len(reader_data') =
                  Cardinality({k \in 1..Len(lines) : ~TrimIsEmpty(lines[k])})
           /\ reader_data' = NonBlankValues(lines, Len(lines))]_vars

Str_c == <<"c">>

\* The direct field names of an object record, as a set and in key order.
FieldNames(record) == {record.map[k].key : k \in 1..Len(record.map)}
FieldNameSeq(record) == [k \in 1..Len(record.map) |-> record.map[k].key]

\* The indices of the object records of the dataset.
ObjectRows == {i \in 1..Len(reader_data) : reader_data[i].t = "Object"}

\* The number of object records whose direct field names are exactly names.
RecordsWithFields(names) ==
    Cardinality({i \in ObjectRows : FieldNames(reader_data[i]) = names})

\* The set of the elements of a sequence.
Elements(items) == {items[k] : k \in 1..Len(items)}

\* C12: get_top_key_combinations(n) returns the first min(n, number of
\* distinct fingerprints) entries of the list of (sorted direct top-level field
\* names, number of object records with exactly that field-name set), ordered
\* by descending count and, on equal counts, ascending lexicographic order of
\* the field-name sequence; records that are not objects contribute to no
\* entry.  Scenario D: top-1 over [{"a":1,"b":2},{"a":1,"b":2},{"c":3}] is
\* (["a","b"], 2).
C12_TopKeyCombinations ==
    (phase = "Ready" /\ result.op = "show_top_key_combinations_report") =>
        LET n == report.arg
            top == report.combos
            fingerprints == {FieldNames(reader_data[i]) : i \in ObjectRows}
        IN  /\ Len(top) = IF n < Cardinality(fingerprints)
                          THEN n ELSE Cardinality(fingerprints)
            /\ \A k \in 1..Len(top) :
                   /\ Elements(top[k][1]) \in fingerprints
                   /\ Len(top[k][1]) = Cardinality(Elements(top[k][1]))
                   /\ \A j \in 1..(Len(top[k][1]) - 1) :
                          StrLess(top[k][1][j], top[k][1][j + 1])
                   /\ top[k][2] = RecordsWithFields(Elements(top[k][1]))
            /\ \A k \in 1..(Len(top) - 1) :
                   \/ top[k][2] > top[k + 1][2]
                   \/ top[k][2] = top[k + 1][2] /\ VecLess(top[k][1], top[k + 1][1])
            /\ \A i \in ObjectRows :
                   \/ \E k \in 1..Len(top) : top[k][1] = FieldNameSeq(reader_data[i])
                   \/ /\ Len(top) = n
                      /\ \A k \in 1..Len(top) :
                          \/ top[k][2] > RecordsWithFields(FieldNames(reader_data[i]))
                          \/ /\ top[k][2] = RecordsWithFields(FieldNames(reader_data[i]))
                             /\ VecLess(top[k][1], FieldNameSeq(reader_data[i]))
            /\ (reader_data = <<ObjAB, ObjAB, ObjC>> /\ n = 1) =>
                   top = <<<<<<Str_a, Str_b>>, 2>>>>

\* The top-1 combination of [{"a":1,"b":2},{"a":1,"b":2},{"c":3}] has been
\* reported.
C12_Witness ==
    /\ phase = "Ready"
    /\ result.op = "show_top_key_combinations_report"
    /\ reader_data = <<ObjAB, ObjAB, ObjC>>
    /\ report.arg = 1
    /\ report.combos # <<>>

\* C13: key_freqs contains each key path at most once and is strictly ordered:
\* of two adjacent entries (p1,c1), (p2,c2) either c1 > c2, or c1 = c2 and
\* p1 < p2 lexicographically; the table is determined by the records (the same
\* records always give the same table).
C13_TableStrictlyOrdered ==
    phase = "Ready" =>
        LET table == key_freqs[1]
        IN  /\ \A j, k \in 1..Len(table) : table[j][1] = table[k][1] => j = k
            /\ \A k \in 1..(Len(table) - 1) :
                   \/ table[k][2] > table[k + 1][2]
                   \/ table[k][2] = table[k + 1][2]
                          /\ StrLess(table[k][1], table[k + 1][1])
            /\ \A j, k \in 1..Len(table) :
                   j < k => (table[j][2] >= table[k][2] /\ table[j] # table[k])
            /\ Elements(table) =
                   {<<p, CountKeys(reader_data)[p]>> : p \in DOMAIN CountKeys(reader_data)}

\* A table with two key paths of equal count and one of a smaller count.
C13_Witness ==
    /\ phase = "Ready"
    /\ key_freqs # None
    /\ Len(key_freqs[1]) >= 3
    /\ \E k \in 1..(Len(key_freqs[1]) - 1) : key_freqs[1][k][2] = key_freqs[1][k + 1][2]
    /\ \E k \in 1..(Len(key_freqs[1]) - 1) : key_freqs[1][k][2] > key_freqs[1][k + 1][2]

\* The reporting operations of the handle.
ReportingOps ==
    {"show_keys_found_report", "show_keys_frequencies_report",
     "show_top_key_combinations_report", "show_record"}

\* C14: no reporting operation re-runs the key-path analysis over the records:
\* each leaves the records and the cached fields unchanged, reports key paths
\* and missing keys taken from the cached fields, and reports the same when
\* called twice in a row with no mutation in between.
C14_ReportsDoNotRecompute ==
    [][(phase = "Ready" /\ result'.op \in ReportingOps) =>
           /\ UNCHANGED <<reader_data, keys_seen, key_freqs, rows_with_missing_keys>>
           /\ ~report'.recomputed
           /\ (report'.op = "show_record" /\ report'.record # None) =>
                  report'.missing =
                      keys_seen[1] \ get_keys_in_row(reader_data[report'.arg + 1])
           /\ (result.op = result'.op /\ report.arg = report'.arg) =>
                  report' = report]_vars

====
